---------------------------- MODULE Spec2Model ----------------------------
(***************************************************************************)
(* A model of the marisa-rs binding (src/src/lib.rs): the Key wrapper and  *)
(* its raw C-string ownership, the Keyset wrapper over the block-allocated *)
(* marisa::Keyset, and the Trie wrapper that forwards to marisa::Trie.     *)
(*                                                                         *)
(* Strings are sequences of bytes (naturals below 256).  A 32-bit float is *)
(* represented by its IEEE-754 bit pattern, which is what the union of a   *)
(* marisa_Key stores.  The foreign calls (push_back, reset, clear, build,  *)
(* num_keys, ...) are modelled at their call sites in lib.rs by what       *)
(* libmarisa does when called that way.                                    *)
(***************************************************************************)
EXTENDS Integers, Sequences, FiniteSets, TLC

VARIABLES keys, heap, ks, pushed, gen, trie, alive, lastOp

vars == <<keys, heap, ks, pushed, gen, trie, alive, lastOp>>

---------------------------------------------------------------------------
(* Bounds of the model.                                                    *)

\* Longest string handed to Key::new / Key::set_str.
MaxStrLen == 2

\* Heap cells the allocator can hand out: a released cell can be handed out
\* again.
Addrs == {1, 2}

\* Program variables that can hold a Key at one time.
Slots == {1, 2}

\* Bytes strings are made of: NUL and 'f'.
Bytes == {0, 102}

\* f32 bit patterns of the weights the code and its tests use.
F32_1_0 == 1065353216
F32_0_8 == 1061997773
F32_0_5 == 1056964608

Weights == {F32_1_0, F32_0_5}

Ids == {12, 134}

RECURSIVE SeqsUpTo(_, _)
SeqsUpTo(S, n) ==
    IF n = 0 THEN {<<>>}
    ELSE LET shorter == SeqsUpTo(S, n - 1)
         IN  shorter \cup {Append(s, b) : s \in {t \in shorter : Len(t) = n - 1}, b \in S}

\* The &str arguments of Key::new and Key::set_str.
Strs == SeqsUpTo(Bytes, MaxStrLen)

---------------------------------------------------------------------------
(* utils::to_raw and the C-string reads.                                   *)

HasNul(s) == \E i \in 1..Len(s) : s[i] = 0

\* CString::new(key).expect(..): fails on an interior NUL byte.
ToRawPanics(s) == HasNul(s)

\* cstr.as_bytes_with_nul(): the bytes followed by the terminating NUL.
ToRawBytes(s) == Append(s, 0)

\* The size taken from as_bytes() instead: the terminating NUL not counted.
ToRawSizeNoNul(s) == Len(s)

\* bytes.len() of as_bytes_with_nul().
ToRawSize(s) == Len(ToRawBytes(s))

\* CStr::from_ptr(p).to_str(): the bytes before the first NUL of the buffer.
RECURSIVE CStrOf(_)
CStrOf(buf) ==
    IF buf = <<>> \/ Head(buf) = 0 THEN <<>>
    ELSE <<Head(buf)>> \o CStrOf(Tail(buf))

---------------------------------------------------------------------------
(* Key: marisa_Key { ptr_, length_, union_ } plus the drop flag.           *)

\* `view` is not a field of the struct: it records that the value was made by
\* Key::from (or copied from such a value).
NoKey ==
    [present |-> FALSE, ptr_ |-> 0, length_ |-> 0, union_ |-> 0, drop |-> FALSE, view |-> FALSE]

\* impl Default for Key.
DefaultKey ==
    [present |-> TRUE, ptr_ |-> 0, length_ |-> 0, union_ |-> 0, drop |-> FALSE, view |-> FALSE]

FreeCell == [bytes |-> <<>>, live |-> FALSE, frees |-> 0]

\* Key::id(): the union read as u32.
Id(k) == k.union_

\* Key::weight(): the union read as f32 (a float is its bit pattern here).
Weight(k) == k.union_

\* Key::length().
Length(k) == k.length_

\* Key::str(): CStr::from_ptr(ptr_).to_str().  A null or freed pointer is
\* undefined behaviour.
Str(k, h) ==
    IF k.ptr_ = 0 \/ ~h[k.ptr_].live
    THEN [kind |-> "ub", s |-> <<>>]
    ELSE [kind |-> "ok", s |-> CStrOf(h[k.ptr_].bytes)]

\* The last call made and how it ended (a record of the run, not program state).
Op(op, slot, str, num, out) ==
    [op |-> op, slot |-> slot, str |-> str, num |-> num, out |-> out]

KeysetUnchanged == UNCHANGED <<ks, pushed, gen>>

\* impl Default for Key.
KeyDefault(i) ==
    /\ alive /\ ~keys[i].present
    /\ keys' = [keys EXCEPT ![i] = DefaultKey]
    /\ lastOp' = Op("default", i, <<>>, 0, "ok")
    /\ UNCHANGED <<heap, trie, alive>> /\ KeysetUnchanged

\* The Key that Key::new builds around the pointer and size to_raw returns.
\* `size as u32` keeps the value: a size here is at most MaxStrLen + 1.
NewKeyOwned(a, s) ==
    [present |-> TRUE, ptr_ |-> a, length_ |-> ToRawSize(s), union_ |-> 0, drop |-> TRUE,
     view |-> FALSE]

\* Key::new(key).
KeyNew(i, s) ==
    /\ alive /\ ~keys[i].present
    /\ IF ToRawPanics(s)
       THEN /\ lastOp' = Op("new", i, s, 0, "panic")
            /\ UNCHANGED <<keys, heap>>
       ELSE \E a \in Addrs :
            /\ ~heap[a].live
            /\ heap' = [heap EXCEPT ![a] = [bytes |-> ToRawBytes(s), live |-> TRUE, frees |-> 0]]
            /\ keys' = [keys EXCEPT ![i] = NewKeyOwned(a, s)]
            /\ lastOp' = Op("new", i, s, 0, "ok")
    /\ UNCHANGED <<trie, alive>> /\ KeysetUnchanged

\* Key::set_id: self.key.union_.id = id.
SetId(k, n) == [k EXCEPT !.union_ = n]

\* A set_weight that does not reach the union.
SetWeightDropped(k, w) == k

\* Key::set_weight: self.key.union_.weight = weight, the same storage.
SetWeight(k, w) == [k EXCEPT !.union_ = w]

KeySetId(i, n) ==
    /\ alive /\ keys[i].present
    /\ keys' = [keys EXCEPT ![i] = SetId(@, n)]
    /\ lastOp' = Op("set_id", i, <<>>, n, "ok")
    /\ UNCHANGED <<heap, trie, alive>> /\ KeysetUnchanged

KeySetWeight(i, w) ==
    /\ alive /\ keys[i].present
    /\ keys' = [keys EXCEPT ![i] = SetWeight(@, w)]
    /\ lastOp' = Op("set_weight", i, <<>>, w, "ok")
    /\ UNCHANGED <<heap, trie, alive>> /\ KeysetUnchanged

\* Key::set_str(key): a new buffer; the old pointer is overwritten, not freed.
KeySetStr(i, s) ==
    /\ alive /\ keys[i].present
    /\ IF ToRawPanics(s)
       THEN /\ lastOp' = Op("set_str", i, s, 0, "panic")
            /\ UNCHANGED <<keys, heap>>
       ELSE \E a \in Addrs :
            /\ ~heap[a].live
            /\ heap' = [heap EXCEPT ![a] = [bytes |-> ToRawBytes(s), live |-> TRUE, frees |-> 0]]
            /\ keys' = [keys EXCEPT ![i] = [@ EXCEPT !.ptr_ = a,
                                                     !.length_ = ToRawSize(s),
                                                     !.drop = TRUE,
                                                     !.view = FALSE]]
            /\ lastOp' = Op("set_str", i, s, 0, "ok")
    /\ UNCHANGED <<trie, alive>> /\ KeysetUnchanged

\* #[derive(Clone)]: a field-by-field copy, the drop flag included.
CloneOf(k) == k

KeyClone(i, j) ==
    /\ alive /\ keys[i].present /\ ~keys[j].present
    /\ keys' = [keys EXCEPT ![j] = CloneOf(keys[i])]
    /\ lastOp' = Op("clone", j, <<>>, i, "ok")
    /\ UNCHANGED <<heap, trie, alive>> /\ KeysetUnchanged

\* A Key::from that takes ownership of the buffer.
FromOwning(k) == [k EXCEPT !.drop = TRUE, !.view = TRUE]

\* Key::from(existing): the same marisa_Key, never dropped.
From(k) == [k EXCEPT !.drop = FALSE, !.view = TRUE]

KeyFrom(i, j) ==
    /\ alive /\ keys[i].present /\ ~keys[j].present
    /\ keys' = [keys EXCEPT ![j] = From(keys[i])]
    /\ lastOp' = Op("from", j, <<>>, i, "ok")
    /\ UNCHANGED <<heap, trie, alive>> /\ KeysetUnchanged

\* impl Drop for Key: free the C string when the pointer is set and drop is on.
DropFrees(k) == ~(k.ptr_ = 0) /\ k.drop

\* CString::from_raw(ptr) and drop(str): the cell is released.  Releasing a cell
\* that is already released is undefined behaviour: the release is counted and
\* the run ends there.
Release(c) == [bytes |-> <<>>, live |-> FALSE, frees |-> c.frees + 1]

KeyDrop(i) ==
    /\ alive /\ keys[i].present
    /\ IF DropFrees(keys[i])
       THEN /\ heap' = [heap EXCEPT ![keys[i].ptr_] = Release(@)]
            /\ alive' = heap[keys[i].ptr_].live
       ELSE UNCHANGED <<heap, alive>>
    /\ keys' = [keys EXCEPT ![i] = NoKey]
    /\ lastOp' = Op("drop", i, <<>>, keys[i].ptr_, IF DropFrees(keys[i]) THEN "freed" ELSE "kept")
    /\ UNCHANGED trie /\ KeysetUnchanged

---------------------------------------------------------------------------
(* Keyset: the wrapper over marisa::Keyset.  key_blocks_ is an array of     *)
(* `capacity` block pointers of which the first Len(key_blocks) are set;    *)
(* a block is an array of KEY_BLOCK_SIZE default-constructed keys, kept     *)
(* here as the sequence of the slots written so far.                        *)

\* marisa_Keyset_KEY_BLOCK_SIZE.
KEY_BLOCK_SIZE == 256

\* Most keys a keyset holds before its first reset or clear.
MaxKeys == 258

\* The first MaxVaried pushes draw any string and weight; later ones push
\* the filler key of their position.
MaxVaried == 1

\* Most keys a keyset holds once it has been reset or cleared.
MaxRefill == 2

\* Option<f32>.
NoWeight == [some |-> FALSE, w |-> 0]

SomeWeight(w) == [some |-> TRUE, w |-> w]

OptWeights == {NoWeight, SomeWeight(F32_0_5), SomeWeight(F32_0_8)}

\* weight.unwrap_or(1.0).
UnwrapOr(o) == IF o.some THEN o.w ELSE F32_1_0

\* A slot of a block as `new Key[KEY_BLOCK_SIZE]` leaves it.  `valid` is not
\* a field: it tells whether ptr_ still points at the bytes the push copied.
EmptyEntry == [bytes |-> <<>>, length_ |-> 0, union_ |-> 0, valid |-> FALSE]

\* Slot j (from 0) of a block.
SlotOf(block, j) == IF j < Len(block) THEN block[j + 1] ELSE EmptyEntry

\* Writing slot j (from 0) of a block; j is at most the number of slots written.
SetSlot(block, j, e) ==
    IF j < Len(block) THEN [block EXCEPT ![j + 1] = e] ELSE Append(block, e)

\* Keyset::append_key_block: the block array doubles when full, and one new
\* block is appended.
AppendKeyBlock(k) ==
    [k EXCEPT !.capacity = IF Len(k.key_blocks) = k.capacity
                           THEN (IF Len(k.key_blocks) # 0 THEN Len(k.key_blocks) * 2 ELSE 1)
                           ELSE @,
              !.key_blocks = Append(@, <<>>)]

\* Keyset::reserve, as far as the key blocks go.
Reserve(k) ==
    IF k.size_ \div KEY_BLOCK_SIZE = Len(k.key_blocks) THEN AppendKeyBlock(k) ELSE k

\* marisa::Keyset::push_back(ptr, length, weight): the bytes are copied, the
\* key at [size_ / KEY_BLOCK_SIZE][size_ % KEY_BLOCK_SIZE] is set, size_ grows.
PushBack(k, bytes, length, weight) ==
    LET r == Reserve(k)
        b == r.size_ \div KEY_BLOCK_SIZE
        j == r.size_ % KEY_BLOCK_SIZE
    IN  [r EXCEPT !.key_blocks[b + 1] =
                      SetSlot(@, j, [bytes |-> bytes, length_ |-> length,
                                     union_ |-> weight, valid |-> TRUE]),
                  !.size_ = @ + 1]

\* The key pushed at a position past the varied ones.
FillerStr(n) == IF n % 2 = 0 THEN <<102>> ELSE <<102, 102>>

FillerWeight(n) == IF n % 3 = 0 THEN NoWeight ELSE SomeWeight(F32_0_5)

PushInputs ==
    IF gen = 0 /\ ks.size_ < MaxVaried
    THEN Strs \X OptWeights
    ELSE {<<FillerStr(ks.size_), FillerWeight(ks.size_)>>}

\* Keyset::push(key, weight).  The C string to_raw allocates is freed again
\* before push returns (push_back copied its bytes), so the heap is as before.
Push(s, w) ==
    /\ alive
    /\ ks.size_ < (IF gen = 0 THEN MaxKeys ELSE MaxRefill)
    /\ IF ToRawPanics(s)
       THEN /\ lastOp' = Op("push", 0, <<>>, 0, "panic")
            /\ UNCHANGED <<ks, pushed>>
       ELSE /\ ks' = PushBack(ks, ToRawBytes(s), ToRawSize(s), UnwrapOr(w))
            /\ pushed' = Append(pushed, [str |-> s, weight |-> w])
            /\ lastOp' = Op("push", 0, <<>>, 0, "ok")
    /\ UNCHANGED <<keys, heap, gen, trie, alive>>

\* marisa::Keyset::reset(): the sizes go to zero; the key blocks stay, their
\* keys pointing at storage that is handed out again.
Invalidate(block) == [j \in 1..Len(block) |-> [block[j] EXCEPT !.valid = FALSE]]

ResetKeyset(k) ==
    [k EXCEPT !.size_ = 0,
              !.key_blocks = [b \in 1..Len(k.key_blocks) |-> Invalidate(k.key_blocks[b])]]

\* Keyset::reset().
Reset ==
    /\ alive
    /\ ks' = ResetKeyset(ks)
    /\ pushed' = <<>>
    /\ gen' = 1
    /\ lastOp' = Op("reset", 0, <<>>, 0, "ok")
    /\ UNCHANGED <<keys, heap, trie, alive>>

EmptyKeyset == [key_blocks |-> <<>>, capacity |-> 0, size_ |-> 0]

\* marisa::Keyset::clear(): Keyset().swap(*this).
ClearKeyset(k) == EmptyKeyset

\* Keyset::clear().
Clear ==
    /\ alive
    /\ ks' = ClearKeyset(ks)
    /\ pushed' = <<>>
    /\ gen' = 1
    /\ lastOp' = Op("clear", 0, <<>>, 0, "ok")
    /\ UNCHANGED <<keys, heap, trie, alive>>

\* Keyset::num_keys().
NumKeys(k) == k.size_

\* Keyset::empty().
Empty(k) == k.size_ = 0

\* How a call of at() can end: with a Key, with a panic of a slice index
\* check, or, where the code leaves defined behaviour, with the process
\* stopped or with a Key of arbitrary contents.
Returned(e) == [kind |-> "key", key |-> e]

Panic == [kind |-> "panic", key |-> EmptyEntry]

Abort == [kind |-> "abort", key |-> EmptyEntry]

Garbage == [kind |-> "garbage", key |-> EmptyEntry]

\* The body of Keyset::at for the two indices it computes.  Both slices are
\* given the length size_ (the number of keys, not the number of blocks nor
\* the block size), and the index checks are made against that length.  A
\* slice longer than the array behind it is harmless until an element past
\* the array is read.
AtBlocks(k, outer_index, inner_index) ==
    IF k.capacity = 0
    THEN \* from_raw_parts on a null pointer: a checked build stops, an
         \* unchecked one has an empty slice and the index check fails.
         {Abort, Panic}
    ELSE IF ~(outer_index < k.size_) THEN {Panic}
    ELSE IF ~(outer_index < k.capacity)
    THEN \* a read past the end of the block array
         {Abort, Garbage}
    ELSE IF ~(outer_index < Len(k.key_blocks))
    THEN \* the block pointer is null: from_raw_parts on null, then a read
         \* at a small address or the failed index check
         IF inner_index < k.size_ THEN {Abort} ELSE {Abort, Panic}
    ELSE IF ~(inner_index < k.size_) THEN {Panic}
    ELSE {Returned(SlotOf(k.key_blocks[outer_index + 1], inner_index))}

\* at() reading every index in the first block.
AtFirstBlock(k, index) == AtBlocks(k, 0, index % KEY_BLOCK_SIZE)

\* at() without the index checks of the two slices.
AtUnchecked(k, index) ==
    IF index \div KEY_BLOCK_SIZE < Len(k.key_blocks)
    THEN {Returned(SlotOf(k.key_blocks[index \div KEY_BLOCK_SIZE + 1], index % KEY_BLOCK_SIZE))}
    ELSE {Abort, Garbage}

\* Keyset::at(index).
At(k, index) == AtBlocks(k, index \div KEY_BLOCK_SIZE, index % KEY_BLOCK_SIZE)

\* Key::str() and Key::weight() of the Key that at() returned.
EntryStr(e) ==
    IF e.valid THEN [kind |-> "ok", s |-> CStrOf(e.bytes)] ELSE [kind |-> "ub", s |-> <<>>]

\* The indices at() is called with.
Indices == 0..(MaxKeys + 1) \cup {2 * KEY_BLOCK_SIZE, 2 * KEY_BLOCK_SIZE + 1}

---------------------------------------------------------------------------
(* Trie: the wrapper forwards every call to marisa::Trie, whose trie_ is    *)
(* null until a build and after a clear.                                    *)

\* Most keys in a keyset a trie is built from.
MaxTrieKeys == 2

\* The keys of a keyset, in index order.
KeyAt(k, i) == SlotOf(k.key_blocks[i \div KEY_BLOCK_SIZE + 1], i % KEY_BLOCK_SIZE)

\* The distinct byte strings of a keyset.
DistinctKeys(k) == {KeyAt(k, i).bytes : i \in 0..(k.size_ - 1)}

\* The dense id assignments a build can make: one id per distinct string.
IdMaps(k) ==
    {f \in [DistinctKeys(k) -> 0..(Cardinality(DistinctKeys(k)) - 1)] :
        \A a \in DistinctKeys(k), b \in DistinctKeys(k) : f[a] = f[b] => a = b}

\* The keyset after a build: the union of every key holds its id.
WithIds(k, f) ==
    [k EXCEPT !.key_blocks =
        [b \in 1..Len(k.key_blocks) |->
            [j \in 1..Len(k.key_blocks[b]) |->
                IF (b - 1) * KEY_BLOCK_SIZE + (j - 1) < k.size_
                THEN [k.key_blocks[b][j] EXCEPT !.union_ = f[k.key_blocks[b][j].bytes]]
                ELSE k.key_blocks[b][j]]]]

\* marisa::Trie::build(keyset, 0): a new trie is built from the keyset,
\* whatever it holds, and swapped in, whatever the Trie held.
BuiltFrom(tr, k) == [built |-> TRUE, nkeys |-> Cardinality(DistinctKeys(k))]

\* Trie::build(keyset): returns ().
TrieBuild ==
    /\ alive
    /\ trie' = BuiltFrom(trie, ks)
    /\ \E f \in IdMaps(ks) : ks' = WithIds(ks, f)
    /\ lastOp' = Op("build", 0, <<>>, NumKeys(ks), "ok")
    /\ UNCHANGED <<keys, heap, pushed, gen, alive>>

\* marisa::Trie::clear(): Trie().swap(*this).
Cleared(tr) == [built |-> FALSE, nkeys |-> 0]

\* Trie::clear().
TrieClear ==
    /\ alive
    /\ trie' = Cleared(trie)
    /\ lastOp' = Op("trie_clear", 0, <<>>, 0, "ok")
    /\ UNCHANGED <<keys, heap, ks, pushed, gen, alive>>

\* A query returns usize.  On a Trie without a trie_, marisa throws a C++
\* exception (MARISA_STATE_ERROR); it cannot pass the extern "C" call into
\* Rust, and the process is stopped.
Query(name, count) ==
    /\ alive
    /\ IF trie.built
       THEN /\ lastOp' = Op(name, 0, <<>>, count, "count")
            /\ UNCHANGED alive
       ELSE /\ lastOp' = Op(name, 0, <<>>, 0, "abort")
            /\ alive' = FALSE
    /\ UNCHANGED <<keys, heap, ks, pushed, gen, trie>>

\* Trie::num_keys().
TrieNumKeys == Query("num_keys", trie.nkeys)

\* Trie::num_tries() and Trie::num_nodes(): the counts themselves are not
\* modelled, only whether one is returned.
TrieNumTries == Query("num_tries", 0)

TrieNumNodes == Query("num_nodes", 0)

Queries == {"num_keys", "num_tries", "num_nodes"}

---------------------------------------------------------------------------

Init ==
    /\ keys = [i \in Slots |-> NoKey]
    /\ heap = [a \in Addrs |-> FreeCell]
    /\ ks = EmptyKeyset
    /\ pushed = <<>>
    /\ gen = 0
    /\ trie = [built |-> FALSE, nkeys |-> 0]
    /\ alive = TRUE
    /\ lastOp = Op("init", 0, <<>>, 0, "ok")

\* The Key operations that touch the string buffer and its ownership.
NextKeyMem ==
    \/ \E i \in Slots : KeyDefault(i)
    \/ \E i \in Slots, s \in Strs : KeyNew(i, s)
    \/ \E i \in Slots, s \in Strs : KeySetStr(i, s)
    \/ \E i \in Slots, j \in Slots : KeyClone(i, j)
    \/ \E i \in Slots, j \in Slots : KeyFrom(i, j)
    \/ \E i \in Slots : KeyDrop(i)

SpecKeyMem == Init /\ [][NextKeyMem]_vars

\* The Key operations that touch the id/weight union.
NextKeyUnion ==
    \/ \E i \in Slots : KeyDefault(i)
    \/ \E i \in Slots, s \in Strs : KeyNew(i, s)
    \/ \E i \in Slots, n \in Ids : KeySetId(i, n)
    \/ \E i \in Slots, w \in Weights : KeySetWeight(i, w)
    \/ \E i \in Slots, j \in Slots : KeyFrom(i, j)
    \/ \E i \in Slots : KeyDrop(i)

SpecKeyUnion == Init /\ [][NextKeyUnion]_vars

NextKeyset ==
    \/ \E in \in PushInputs : Push(in[1], in[2])
    \/ Reset
    \/ Clear

SpecKeyset == Init /\ [][NextKeyset]_vars

NextTrie ==
    \/ \E in \in PushInputs : ks.size_ < MaxTrieKeys /\ Push(in[1], in[2])
    \/ Clear
    \/ TrieBuild
    \/ TrieClear
    \/ TrieNumKeys
    \/ TrieNumTries
    \/ TrieNumNodes

SpecTrie == Init /\ [][NextTrie]_vars

---------------------------------------------------------------------------
(* Claims about Key.                                                       *)

\* C3: for every string s without an interior NUL byte, Key::new(s) and
\* set_str(s) succeed and yield a Key whose str() is Ok(s) and whose length()
\* is len(s) + 1.
C3_StrRoundTrip ==
    (lastOp.op \in {"new", "set_str"} /\ ~HasNul(lastOp.str)) =>
        /\ lastOp.out = "ok"
        /\ Str(keys[lastOp.slot], heap) = [kind |-> "ok", s |-> lastOp.str]
        /\ Length(keys[lastOp.slot]) = Len(lastOp.str) + 1

C3_Witness ==
    /\ lastOp.op = "set_str" /\ lastOp.str = <<102, 102>>
    /\ Length(keys[lastOp.slot]) = 3
    /\ \E i \in Slots : i # lastOp.slot /\ keys[i].drop /\ Length(keys[i]) = 2
                          /\ Str(keys[i], heap).s = <<102>>

\* C4: a Key made by Key::from reads the same string as the original, and
\* dropping it releases nothing: the heap and what every other Key reads are
\* the same after the drop.
C4_ViewReadsSame ==
    lastOp.op = "from" =>
        /\ Str(keys[lastOp.slot], heap) = Str(keys[lastOp.num], heap)
        /\ Length(keys[lastOp.slot]) = Length(keys[lastOp.num])

C4_DropViewKeeps ==
    \A j \in Slots :
        (keys[j].view /\ lastOp'.op = "drop" /\ lastOp'.slot = j) =>
            /\ heap' = heap
            /\ \A i \in Slots \ {j} : Str(keys'[i], heap') = Str(keys[i], heap)

\* C4: both parts, in every state and at every step.
C4_ViewIsNonOwning == [](C4_ViewReadsSame) /\ [][C4_DropViewKeeps]_vars

C4_Witness ==
    /\ lastOp.op = "drop" /\ lastOp.out = "kept" /\ lastOp.num # 0
    /\ \E i \in Slots : /\ keys[i].ptr_ = lastOp.num /\ keys[i].drop /\ ~keys[i].view
                          /\ Str(keys[i], heap) = [kind |-> "ok", s |-> <<102, 102>>]

C10_FreedAtMostOnce ==
    /\ \A a \in Addrs : heap[a].frees <= 1
    /\ \A i \in Slots, j \in Slots :
          (i # j /\ keys[i].drop /\ keys[j].drop /\ keys[i].ptr_ # 0) =>
              keys[i].ptr_ # keys[j].ptr_
    /\ \A i \in Slots : keys[i].ptr_ # 0 => heap[keys[i].ptr_].live

---------------------------------------------------------------------------
(* Claims about Keyset.                                                    *)

\* at() ended without returning a Key.
Failed(o) == o.kind \in {"panic", "abort"}

\* C1: after n pushes (since the keyset was made, reset or cleared),
\* num_keys() = n and at(i) returns the i-th pushed key: str() is the pushed
\* string and weight() the pushed weight, 1.0 for None.
C1_PushOrderKept ==
    /\ NumKeys(ks) = Len(pushed)
    /\ \A i \in 0..(Len(pushed) - 1) :
          \E e \in {o.key : o \in At(ks, i)} :
              /\ At(ks, i) = {Returned(e)}
              /\ EntryStr(e) = [kind |-> "ok", s |-> pushed[i + 1].str]
              /\ e.length_ = Len(pushed[i + 1].str) + 1
              /\ pushed[i + 1].weight.some => e.union_ = pushed[i + 1].weight.w
              /\ ~pushed[i + 1].weight.some => e.union_ = F32_1_0

C1_Witness ==
    /\ Len(pushed) = KEY_BLOCK_SIZE + 2 /\ gen = 0
    /\ pushed[1] = [str |-> <<102, 102>>, weight |-> SomeWeight(F32_0_8)]
    /\ At(ks, 0) = {Returned([bytes |-> <<102, 102, 0>>, length_ |-> 3,
                              union_ |-> F32_0_8, valid |-> TRUE])}
    /\ \E o \in At(ks, KEY_BLOCK_SIZE + 1) :
          EntryStr(o.key).s = FillerStr(KEY_BLOCK_SIZE + 1) /\ o.key.union_ = F32_0_5

\* C2: at(index) with index >= num_keys() fails (the call does not return)
\* and never returns a Key.
C2_AtBoundsChecked ==
    \A i \in Indices : i >= NumKeys(ks) => \A o \in At(ks, i) : Failed(o)

\* C8: after reset() or clear(), until a key is pushed, num_keys() = 0,
\* empty() holds and at(i) fails for every i, however many keys were pushed
\* before.
C8_EmptyAfterReset ==
    (gen = 1 /\ pushed = <<>>) =>
        /\ NumKeys(ks) = 0
        /\ Empty(ks)
        /\ \A i \in Indices : \A o \in At(ks, i) : Failed(o)

C8_Witness ==
    /\ lastOp.op = "reset" /\ pushed = <<>>
    /\ Len(ks.key_blocks) = 2 /\ Len(ks.key_blocks[1]) = KEY_BLOCK_SIZE
    /\ At(ks, 0) = {Panic} /\ At(ks, KEY_BLOCK_SIZE) = {Panic}

---------------------------------------------------------------------------
(* Claims about Trie.                                                      *)

\* C5: a query on a Trie that is not built fails with NotBuilt, an error
\* returned to the caller, who goes on.
C5_QueryNeedsBuilt ==
    (lastOp.op \in Queries /\ ~trie.built) => (lastOp.out = "not_built" /\ alive)

\* C6: build() on a Built Trie is not accepted and does not replace the trie.
C6_BuildOnlyFromEmpty ==
    [][(trie.built /\ lastOp'.op = "build") => (lastOp'.out # "ok" /\ trie' = trie)]_vars

\* C7: build() on a keyset with zero records fails with EmptyInput and leaves
\* the Trie Empty; no Built Trie has num_keys() = 0.
C7_EmptyInputRejected ==
    /\ (lastOp.op = "build" /\ lastOp.num = 0) => (lastOp.out = "empty_input" /\ ~trie.built)
    /\ trie.built => trie.nkeys > 0

=============================================================================
